---- MODULE Spec2Model ----
(***************************************************************************)
(* Model of the sentiment reply engine of ai_sentiment_reply.py: the text  *)
(* helpers (_simple_normalize, _simple_summarize), the rating mapper, the  *)
(* SentimentModel load-or-train lifecycle with its persisted artifact, and *)
(* generate_reply as it is called by concurrent request threads.           *)
(*                                                                         *)
(* A text is a sequence of one-character strings.  " " stands for the      *)
(* whitespace class \s, "a" and "A" for the word class \w, "," for any     *)
(* other character, "." and "?" for the sentence-ending marks.             *)
(***************************************************************************)
EXTENDS Integers, Sequences, FiniteSets, TLC

\* ------------------------------------------------------------------ bounds
\* Longest text the summarizer is applied to.
MaxLen == 5
\* Largest max_sentences the summarizer is called with.
MaxSentences == 2
\* generate_reply calls started in one process run.
MaxCalls == 2
\* Process runs (the first start and the restarts) over one artifact file.
MaxRuns == 2

\* --------------------------------------------------------------- characters
Alphabet == {"a", ",", " ", ".", "?"}

IsSpace(c) == c = " "

IsEnd(c) == c \in {".", "!", "?"}

IsWord(c) == c \in {"a", "A"}

Lower(c) == IF c = "A" THEN "a" ELSE c

\* str.strip(): drop leading and trailing whitespace.
RECURSIVE LStrip(_)
LStrip(s) ==
    IF s # <<>> /\ IsSpace(Head(s)) THEN LStrip(Tail(s)) ELSE s

RECURSIVE RStrip(_)
RStrip(s) ==
    IF s # <<>> /\ IsSpace(s[Len(s)]) THEN RStrip(SubSeq(s, 1, Len(s) - 1)) ELSE s

Strip(s) == RStrip(LStrip(s))

\* re.sub(r"\s+", " ", t): every whitespace run becomes one space.
RECURSIVE CollapseSpaces(_)
CollapseSpaces(s) ==
    IF s = <<>> THEN <<>>
    ELSE IF IsSpace(Head(s)) THEN <<" ">> \o CollapseSpaces(LStrip(s))
    ELSE <<Head(s)>> \o CollapseSpaces(Tail(s))

\* _simple_normalize on a str: lower(), strip(), collapse whitespace.
SimpleNormalize(text) ==
    CollapseSpaces(Strip([i \in 1..Len(text) |-> Lower(text[i])]))

\* --------------------------------------------------------------- summarizer
\* First index >= i of t that holds no whitespace (Len(t) + 1 when none).
RECURSIVE SkipSpaces(_, _)
SkipSpaces(t, i) ==
    IF i <= Len(t) /\ IsSpace(t[i]) THEN SkipSpaces(t, i + 1) ELSE i

\* re.split(r'(?<=[.!?])\s+', t) from index i on, cur the piece being read:
\* a whitespace run that directly follows an end mark separates two pieces.
RECURSIVE SplitAt(_, _, _)
SplitAt(t, i, cur) ==
    IF i > Len(t) THEN <<cur>>
    ELSE IF IsSpace(t[i]) /\ i > 1 /\ IsEnd(t[i - 1])
         THEN <<cur>> \o SplitAt(t, SkipSpaces(t, i), <<>>)
         ELSE SplitAt(t, i + 1, Append(cur, t[i]))

\* SplitSentences with a fault: the lookbehind is lost, any whitespace run splits.
RECURSIVE SplitAnySpace(_, _, _)
SplitAnySpace(t, i, cur) ==
    IF i > Len(t) THEN <<cur>>
    ELSE IF IsSpace(t[i])
         THEN <<cur>> \o SplitAnySpace(t, SkipSpaces(t, i), <<>>)
         ELSE SplitAnySpace(t, i + 1, Append(cur, t[i]))

SplitSentences_NoLookbehind(t) == SplitAnySpace(t, 1, <<>>)

SplitSentences(t) == SplitAt(t, 1, <<>>)

\* len(re.findall(r'\w+', s)): the number of maximal runs of word characters.
WordCount(s) ==
    Cardinality({i \in 1..Len(s) : IsWord(s[i]) /\ (i = 1 \/ ~IsWord(s[i - 1]))})

\* The (word count, index, stripped sentence) tuples of the non-blank sentences.
Scored(sentences) ==
    {[n |-> WordCount(sentences[k]), i |-> k - 1, s |-> Strip(sentences[k])] :
        k \in {j \in 1..Len(sentences) : Strip(sentences[j]) # <<>>}}

\* Tuple order of Python on (n, i, s): the indices differ, so s never decides.
TupleLess(x, y) == x.n < y.n \/ (x.n = y.n /\ x.i < y.i)

\* scored.sort(reverse=True): greatest tuple first.
RECURSIVE SortReverse(_)
SortReverse(S) ==
    IF S = {} THEN <<>>
    ELSE LET top == CHOOSE x \in S : \A y \in S \ {x} : TupleLess(y, x)
         IN  <<top>> \o SortReverse(S \ {top})

\* scored[:k]
Prefix(q, k) == SubSeq(q, 1, IF k < Len(q) THEN k ELSE Len(q))

\* " ".join(parts)
RECURSIVE JoinSpace(_)
JoinSpace(parts) ==
    IF parts = <<>> THEN <<>>
    ELSE IF Len(parts) = 1 THEN parts[1]
    ELSE parts[1] \o <<" ">> \o JoinSpace(Tail(parts))

StripEach(q) == [k \in 1..Len(q) |-> Strip(q[k])]

\* lines 96-99: sort, take the first max_sentences, keep their texts as a set.
SelectedSet(scored, max_sentences) ==
    LET top == Prefix(SortReverse(scored), max_sentences)
    IN  {top[k].s : k \in 1..Len(top)}

\* line 100: the sentences whose stripped text is in the set, in input order.
Ordered(sentences, selected_set) ==
    LET InSet(s) == Strip(s) \in selected_set
    IN  SelectSeq(sentences, InSet)

\* _simple_summarize(text, max_sentences) on a str.
SimpleSummarize(text, max_sentences) ==
    IF text = <<>> THEN <<>>
    ELSE LET sentences == SplitSentences(Strip(text))
         IN  IF Len(sentences) <= max_sentences THEN Strip(text)
             ELSE LET scored == Scored(sentences)
                  IN  IF scored = {} THEN Strip(text)
                      ELSE JoinSpace(StripEach(
                               Ordered(sentences, SelectedSet(scored, max_sentences))))

\* ------------------------------------------------------------ rating mapper
\* The values a caller passes as rating.
NoRating == [kind |-> "none"]

IntRating(n) == [kind |-> "int", v |-> n]

\* The float tenths / 10.
FloatRating(tenths) == [kind |-> "float", tenths |-> tenths]

NanRating == [kind |-> "nan"]

StrRating(chars) == [kind |-> "str", chars |-> chars]

\* A value int() has no conversion for (a list, a dict).
ObjRating == [kind |-> "obj"]

Digits == {"0", "1", "2", "3", "4", "5", "6", "7", "8", "9"}

DigitVal(c) == CHOOSE d \in 0..9 : ToString(d) = c

RECURSIVE DigitsVal(_)
DigitsVal(ds) ==
    IF ds = <<>> THEN 0 ELSE 10 * DigitsVal(SubSeq(ds, 1, Len(ds) - 1)) + DigitVal(ds[Len(ds)])

Failed == [ok |-> FALSE]

Value(n) == [ok |-> TRUE, v |-> n]

\* int(str): surrounding whitespace, an optional sign, then one or more digits.
IntOfStr(chars) ==
    LET t      == Strip(chars)
        signed == t # <<>> /\ Head(t) \in {"-", "+"}
        ds     == IF signed THEN Tail(t) ELSE t
    IN  IF ds = <<>> \/ \E k \in 1..Len(ds) : ds[k] \notin Digits THEN Failed
        ELSE IF signed /\ Head(t) = "-" THEN Value(0 - DigitsVal(ds))
        ELSE Value(DigitsVal(ds))

\* int(float): truncation toward zero.
IntOfFloat(tenths) ==
    IF tenths >= 0 THEN Value(tenths \div 10) ELSE Value(0 - ((0 - tenths) \div 10))

\* int(rating) inside the try: Failed stands for the exception caught.
IntOf(rating) ==
    CASE rating.kind = "int"   -> Value(rating.v)
      [] rating.kind = "float" -> IntOfFloat(rating.tenths)
      [] rating.kind = "str"   -> IntOfStr(rating.chars)
      [] OTHER                 -> Failed

Labels == {"positive", "neutral", "negative"}

\* MapRatingToSentiment with a fault: the boundary of positive moved to r > 4;
\* and with another: an int() failure answered with a label in place of None.
MapRatingToSentiment_Off(rating) ==
    IF rating.kind = "none" THEN "None"
    ELSE LET r == IntOf(rating)
         IN  IF ~r.ok THEN "None"
             ELSE IF r.v > 4 THEN "positive"
             ELSE IF r.v = 3 THEN "neutral"
             ELSE "negative"

MapRatingToSentiment_NoCatch(rating) ==
    IF rating.kind = "none" THEN "None"
    ELSE LET r == IntOf(rating)
         IN  IF ~r.ok THEN "negative"
             ELSE IF r.v >= 4 THEN "positive"
             ELSE IF r.v = 3 THEN "neutral"
             ELSE "negative"

\* _map_rating_to_sentiment; "None" is Python's None.
MapRatingToSentiment(rating) ==
    IF rating.kind = "none" THEN "None"
    ELSE LET r == IntOf(rating)
         IN  IF ~r.ok THEN "None"
             ELSE IF r.v >= 4 THEN "positive"
             ELSE IF r.v = 3 THEN "neutral"
             ELSE "negative"

\* ------------------------------------------------------- tables and reply
\* str(SENT_MODEL_PATH)
ModelPath == "models/sentiment_pipe.joblib"

\* len(_BOOTSTRAP_TRAIN)
BootstrapSize == 15

\* Recommendations with a fault: the table is read with the wrong key for
\* negative, so a negative reply carries the neutral actions.
Recommendations_WrongKey(sentiment) ==
    CASE sentiment = "positive" -> <<"Share with product team", "Thank user">>
      [] sentiment = "neutral"  -> <<"Log for product review", "Monitor feedback trend">>
      [] sentiment = "negative" -> <<"Log for product review", "Monitor feedback trend">>
      [] OTHER                  -> <<"Log for review">>

\* _RECOMMENDATIONS.get(sentiment, ["Log for review"])
Recommendations(sentiment) ==
    CASE sentiment = "positive" -> <<"Share with product team", "Thank user">>
      [] sentiment = "neutral"  -> <<"Log for product review", "Monitor feedback trend">>
      [] sentiment = "negative" ->
            <<"Escalate to engineering", "Request logs/screenshots", "Offer support contact">>
      [] OTHER                  -> <<"Log for review">>

\* "; ".join(recs), as a sequence of string pieces
RECURSIVE JoinSemi(_)
JoinSemi(recs) ==
    IF recs = <<>> THEN <<>>
    ELSE IF Len(recs) = 1 THEN <<recs[1]>>
    ELSE <<recs[1], "; ">> \o JoinSemi(Tail(recs))

\* _TEMPLATES.get(sentiment, _TEMPLATES["neutral"]).format(summary=..., recs=...):
\* the reply as the sequence of its pieces (template text, summary characters);
\* the dash of the negative template is written -- here.
FormatReply(sentiment, summary, recs) ==
    CASE sentiment = "positive" ->
            <<"Thanks for the positive feedback! We're delighted to hear that. Summary: ">>
                \o summary
      [] sentiment = "negative" ->
            <<"Sorry for the trouble -- we appreciate this feedback. Summary: ">>
                \o summary \o <<". Next steps: ">> \o JoinSemi(recs)
      [] OTHER ->
            <<"Thanks for the feedback. Summary: ">> \o summary
                \o <<". We'll consider improvements.">>

\* --------------------------------------------------------------- the model
\* What the artifact file can hold when a process starts: no file, a file that
\* joblib.load fails on, the pipeline dumped by an earlier run, another fitted
\* pipeline, an object that is no pipeline, or a pipeline that tests false
\* (Pipeline.__len__ is 0 with no steps).
ArtifactStates ==
    {"absent", "corrupt", "bootstrap_pipe", "foreign_pipe", "not_a_pipeline", "empty_pipeline"}

\* joblib.load returns an object for these, raises for the rest.
Loadable(file) == file \notin {"absent", "corrupt"}

\* bool(self.pipeline)
Truthy(obj) == obj \notin {"None", "empty_pipeline"}

\* Whether obj.predict([text]) runs at all.
CanPredict(obj) == obj \in {"bootstrap_pipe", "foreign_pipe"}

\* ClampLabel with a fault: the prediction is returned as it is.
ClampLabel_None(pred) == pred

\* predict, lines 161-164: a label outside the closed set becomes neutral.
ClampLabel(pred) ==
    IF pred \notin {"positive", "neutral", "negative"}
    THEN (IF MapRatingToSentiment(NoRating) # "None"
          THEN MapRatingToSentiment(NoRating) ELSE "neutral")
    ELSE pred

\* SaveFailedInfo with a fault: the error message is not recorded.
SaveFailedInfo_NoError(message) ==
    [loaded_from |-> "None", trained |-> TRUE, bootstrap_size |-> BootstrapSize]

\* model_info of the except branch of the save.
SaveFailedInfo(message) ==
    [loaded_from |-> "None", trained |-> TRUE, bootstrap_size |-> BootstrapSize,
     save_error |-> message]

\* model_info after a successful save.
SavedInfo == [loaded_from |-> ModelPath, trained |-> TRUE, bootstrap_size |-> BootstrapSize]

\* model_info after a successful load.
LoadedInfo == [loaded_from |-> ModelPath, trained |-> FALSE]

\* DumpedObject with a fault: the dump writes an object other than the pipeline
\* that was fitted.
DumpedObject_Other(pipe) == "foreign_pipe"

\* What joblib.dump(pipe, path) leaves in the file when it succeeds.
DumpedObject(pipe) == pipe

\* str(e) of the exception a failed dump raises.
ErrorMessage(outcome) ==
    IF outcome = "open_failed" THEN "Permission denied" ELSE "No space left on device"

\* The file after a dump: untouched when the open fails, a partial file when
\* the write fails.
FileAfterDump(file, pipe, outcome) ==
    CASE outcome = "saved"       -> DumpedObject(pipe)
      [] outcome = "open_failed" -> file
      [] OTHER                   -> "corrupt"

\* str(review or "") for a review that is no str; a str is kept.
CoerceReview(review) == IF review.kind = "str" THEN review.chars ELSE <<>>

\* {"sentiment_source": used, "model_path": ..., **_SENT_MODEL.model_info}
ResultInfo(used, info) ==
    [k \in DOMAIN info \cup {"sentiment_source", "model_path"} |->
        IF k \in DOMAIN info THEN info[k]
        ELSE IF k = "sentiment_source" THEN used ELSE ModelPath]

\* generate_reply, lines 196-213.
BuildResult(text, sentiment, used, info) ==
    LET summary == SimpleSummarize(text, 1)
        recs    == Recommendations(sentiment)
    IN  [status |-> "ok",
         reply |-> FormatReply(sentiment, summary, recs),
         summary |-> summary,
         sentiment |-> sentiment,
         recommendations |-> recs,
         model_info |-> ResultInfo(used, info)]

\* ------------------------------------------------------------------ state
VARIABLES
    artifact,    \* what the file at SENT_MODEL_PATH holds
    pipeline,    \* _SENT_MODEL.pipeline ("None" while unset)
    model_info,  \* _SENT_MODEL.model_info
    pc,          \* where each thread is: "main" imports the module, the rest serve requests
    loc,         \* the locals of each request thread's generate_reply call
    saved,       \* the outcome of this run's last joblib.dump ("none" before any)
    inits,       \* how many times _ensure_model was entered in this run
    calls,       \* how many generate_reply calls were started in this run
    run,         \* the number of the process run
    fitted,      \* the label the bootstrap-fitted pipeline predicts for each normalized text
    ref,         \* one earlier call, with its result, kept to compare later calls with
    conf,        \* the deployment explored: the request threads, the inputs they are given
    sumText,     \* the summarizer applied on its own: its text,
    sumMax,      \* its max_sentences,
    sumOut       \* and its result

procVars ==
    <<artifact, pipeline, model_info, pc, loc, saved, inits, calls, run, fitted, ref, conf>>

sumVars == <<sumText, sumMax, sumOut>>

vars == <<artifact, pipeline, model_info, pc, loc, saved, inits, calls, run, fitted, ref,
          conf, sumText, sumMax, sumOut>>

Threads == {"t1", "t2"}

Actors == {"main"} \cup Threads

\* The reviews the request threads are called with: a str of two sentences
\* (upper case, a double space) and a value that is no str.
Reviews ==
    {[kind |-> "str", chars |-> <<"A", ".", " ", " ", "a", "?">>], [kind |-> "none"]}

\* The ratings the request threads are called with.
Ratings ==
    {NoRating, IntRating(-1), IntRating(2), IntRating(3), IntRating(4), IntRating(10),
     FloatRating(45), StrRating(<<"5">>), StrRating(<<"x">>), NanRating, ObjRating}

NormTexts(reviews) == {SimpleNormalize(CoerceReview(r)) : r \in reviews}

\* Two request threads racing, each given any review, with no rating or with one;
\* the first call returned is kept in ref.
ConcurrentConf ==
    [threads |-> Threads,
     reviews |-> Reviews,
     ratings |-> {NoRating, IntRating(4)},
     track   |-> TRUE]

\* One request thread given every review and rating.
SerialConf ==
    [threads |-> {"t1"}, reviews |-> Reviews, ratings |-> Ratings, track |-> FALSE]

\* A fitted pipeline other than the bootstrap one: it knows a label of its own.
ForeignPredict(text_norm) == IF WordCount(text_norm) = 0 THEN "mixed" ELSE "positive"

\* self.pipeline.predict([text_norm])[0]
PipelinePredict(obj, text_norm) ==
    IF obj = "bootstrap_pipe" THEN fitted[text_norm] ELSE ForeignPredict(text_norm)

NoResult == [status |-> "none"]

\* The exception of predict on an object that is no fitted pipeline, as it leaves
\* generate_reply.
Raised == [status |-> "raised"]

IdleLoc ==
    [review |-> [kind |-> "none"], rating |-> NoRating, sentiment |-> "None",
     used |-> "None", result |-> NoResult]

NoRef == [set |-> FALSE]

EnsurePcs == {"exists", "load", "loaded_info", "fit", "dump", "install"}

\* Where _ensure_model returns to: the end of the import, or predict.
ReturnPc(a) == IF a = "main" THEN "ready" ELSE "run_predict"

Start(c) ==
    /\ conf = c
    /\ artifact \in ArtifactStates
    /\ pipeline = "None"
    /\ model_info = [loaded_from |-> "None"]
    /\ pc = [a \in Actors |-> IF a = "main" THEN "start" ELSE "idle"]
    /\ loc = [t \in Threads |-> IdleLoc]
    /\ saved = "none"
    /\ inits = 0
    /\ calls = 0
    /\ run = 1
    /\ fitted \in [NormTexts(c.reviews) -> Labels]
    /\ ref = NoRef
    /\ sumText = <<>>
    /\ sumMax = 1
    /\ sumOut = [done |-> FALSE]

Init == Start(ConcurrentConf)

SerialInit == Start(SerialConf)

\* SentimentModel.__init__ at module import: the fields, then _ensure_model.
Construct ==
    /\ pc["main"] = "start"
    /\ pipeline' = "None"
    /\ model_info' = [loaded_from |-> "None"]
    /\ inits' = inits + 1
    /\ pc' = [pc EXCEPT !["main"] = "exists"]
    /\ UNCHANGED <<artifact, loc, saved, calls, run, fitted, ref, conf, sumVars>>

\* _ensure_model, line 129: self.model_path.exists()
EnsureExists(a) ==
    /\ pc[a] = "exists"
    /\ pc' = [pc EXCEPT ![a] = IF artifact # "absent" THEN "load" ELSE "fit"]
    /\ UNCHANGED <<artifact, pipeline, model_info, loc, saved, inits, calls, run, fitted,
                   ref, conf, sumVars>>

\* line 131: joblib.load; whatever it returns becomes the pipeline, an exception
\* falls through to training.
EnsureLoad(a) ==
    /\ pc[a] = "load"
    /\ IF Loadable(artifact)
       THEN /\ pipeline' = artifact
            /\ pc' = [pc EXCEPT ![a] = "loaded_info"]
       ELSE /\ pc' = [pc EXCEPT ![a] = "fit"]
            /\ UNCHANGED pipeline
    /\ UNCHANGED <<artifact, model_info, loc, saved, inits, calls, run, fitted, ref, conf, sumVars>>

\* lines 132-133: the provenance of a loaded model, and return.
EnsureLoadedInfo(a) ==
    /\ pc[a] = "loaded_info"
    /\ model_info' = LoadedInfo
    /\ pc' = [pc EXCEPT ![a] = ReturnPc(a)]
    /\ UNCHANGED <<artifact, pipeline, loc, saved, inits, calls, run, fitted, ref, conf, sumVars>>

\* lines 138-145: fit the pipeline on the bootstrap set.
EnsureFit(a) ==
    /\ pc[a] = "fit"
    /\ pc' = [pc EXCEPT ![a] = "dump"]
    /\ UNCHANGED <<artifact, pipeline, model_info, loc, saved, inits, calls, run, fitted,
                   ref, conf, sumVars>>

\* lines 147-152: joblib.dump and the provenance of either outcome.
EnsureDump(a) ==
    /\ pc[a] = "dump"
    /\ \E outcome \in {"saved", "open_failed", "write_failed"} :
        /\ artifact' = FileAfterDump(artifact, "bootstrap_pipe", outcome)
        /\ model_info' = IF outcome = "saved" THEN SavedInfo
                         ELSE SaveFailedInfo(ErrorMessage(outcome))
        /\ saved' = outcome
    /\ pc' = [pc EXCEPT ![a] = "install"]
    /\ UNCHANGED <<pipeline, loc, inits, calls, run, fitted, ref, conf, sumVars>>

\* line 153: self.pipeline = pipe, and return.
EnsureInstall(a) ==
    /\ pc[a] = "install"
    /\ pipeline' = "bootstrap_pipe"
    /\ pc' = [pc EXCEPT ![a] = ReturnPc(a)]
    /\ UNCHANGED <<artifact, model_info, loc, saved, inits, calls, run, fitted, ref, conf, sumVars>>

\* generate_reply, lines 180-194, up to the choice between rating and model.
Call(t, review, rating) ==
    /\ pc["main"] = "ready"
    /\ pc[t] = "idle"
    /\ calls < MaxCalls
    /\ calls' = calls + 1
    /\ LET fromRating == MapRatingToSentiment(rating)
       IN  IF fromRating # "None"
           THEN /\ loc' = [loc EXCEPT ![t] = [review |-> review, rating |-> rating,
                              sentiment |-> fromRating, used |-> "rating",
                              result |-> NoResult]]
                /\ pc' = [pc EXCEPT ![t] = "build"]
           ELSE /\ loc' = [loc EXCEPT ![t] = [review |-> review, rating |-> rating,
                              sentiment |-> "None", used |-> "model",
                              result |-> NoResult]]
                /\ pc' = [pc EXCEPT ![t] = "predict"]
    /\ UNCHANGED <<artifact, pipeline, model_info, saved, inits, run, fitted, ref, conf, sumVars>>

\* predict, lines 156-157: a pipeline that tests false sends the caller into
\* _ensure_model, with no lock held.
Predict(t) ==
    /\ pc[t] = "predict"
    /\ IF ~Truthy(pipeline)
       THEN /\ pc' = [pc EXCEPT ![t] = "exists"]
            /\ inits' = inits + 1
       ELSE /\ pc' = [pc EXCEPT ![t] = "run_predict"]
            /\ UNCHANGED inits
    /\ UNCHANGED <<artifact, pipeline, model_info, loc, saved, calls, run, fitted, ref,
                   conf, sumVars>>

\* predict, lines 158-164: normalize, predict, clamp; an object with no working
\* predict raises, and nothing in generate_reply catches it.
RunPredict(t) ==
    /\ pc[t] = "run_predict"
    /\ IF CanPredict(pipeline)
       THEN /\ loc' = [loc EXCEPT ![t].sentiment =
                        ClampLabel(PipelinePredict(pipeline,
                            SimpleNormalize(CoerceReview(loc[t].review))))]
            /\ pc' = [pc EXCEPT ![t] = "build"]
       ELSE /\ loc' = [loc EXCEPT ![t].result = Raised]
            /\ pc' = [pc EXCEPT ![t] = "done"]
    /\ UNCHANGED <<artifact, pipeline, model_info, saved, inits, calls, run, fitted, ref,
                   conf, sumVars>>

\* generate_reply, lines 196-213: the result.
Build(t) ==
    /\ pc[t] = "build"
    /\ loc' = [loc EXCEPT ![t].result =
                BuildResult(CoerceReview(loc[t].review), loc[t].sentiment, loc[t].used,
                            model_info)]
    /\ pc' = [pc EXCEPT ![t] = "done"]
    /\ UNCHANGED <<artifact, pipeline, model_info, saved, inits, calls, run, fitted, ref,
                   conf, sumVars>>

\* The call is over; the first call returned is the one kept for comparison.
Return(t) ==
    /\ pc[t] = "done"
    /\ pc' = [pc EXCEPT ![t] = "idle"]
    /\ loc' = [loc EXCEPT ![t] = IdleLoc]
    /\ IF conf.track /\ ~ref.set
       THEN ref' = [set |-> TRUE, review |-> loc[t].review, rating |-> loc[t].rating,
                    result |-> loc[t].result]
       ELSE UNCHANGED ref
    /\ UNCHANGED <<artifact, pipeline, model_info, saved, inits, calls, run, fitted, conf,
                   sumVars>>

\* The process ends and a new one starts over the same file.
Restart ==
    /\ run < MaxRuns
    /\ run' = run + 1
    /\ pipeline' = "None"
    /\ model_info' = [loaded_from |-> "None"]
    /\ pc' = [a \in Actors |-> IF a = "main" THEN "start" ELSE "idle"]
    /\ loc' = [t \in Threads |-> IdleLoc]
    /\ saved' = "none"
    /\ inits' = 0
    /\ calls' = 0
    /\ UNCHANGED <<artifact, fitted, ref, conf, sumVars>>

Next ==
    \/ Construct
    \/ \E a \in Actors : EnsureExists(a)
    \/ \E a \in Actors : EnsureLoad(a)
    \/ \E a \in Actors : EnsureLoadedInfo(a)
    \/ \E a \in Actors : EnsureFit(a)
    \/ \E a \in Actors : EnsureDump(a)
    \/ \E a \in Actors : EnsureInstall(a)
    \/ \E t \in conf.threads, review \in conf.reviews, rating \in conf.ratings :
            Call(t, review, rating)
    \/ \E t \in Threads : Predict(t)
    \/ \E t \in Threads : RunPredict(t)
    \/ \E t \in Threads : Build(t)
    \/ \E t \in Threads : Return(t)
    \/ Restart

Spec == Init /\ [][Next]_vars

SerialSpec == SerialInit /\ [][Next]_vars

\* ------------------------------------------------ the summarizer on its own
Texts == UNION {[1..n -> Alphabet] : n \in 0..MaxLen}

SumInit ==
    /\ conf = SerialConf
    /\ artifact = "absent"
    /\ pipeline = "None"
    /\ model_info = [loaded_from |-> "None"]
    /\ pc = [a \in Actors |-> IF a = "main" THEN "start" ELSE "idle"]
    /\ loc = [t \in Threads |-> IdleLoc]
    /\ saved = "none"
    /\ inits = 0
    /\ calls = 0
    /\ run = 1
    /\ fitted = [x \in NormTexts(Reviews) |-> "neutral"]
    /\ ref = NoRef
    /\ sumText \in Texts
    /\ sumMax \in 1..MaxSentences
    /\ sumOut = [done |-> FALSE]

\* _simple_summarize(sumText, sumMax)
Summarize ==
    /\ ~sumOut.done
    /\ sumOut' = [done |-> TRUE, out |-> SimpleSummarize(sumText, sumMax)]
    /\ UNCHANGED <<procVars, sumText, sumMax>>

SumNext == Summarize

SumSpec == SumInit /\ [][SumNext]_vars

\* ------------------------------------------------------------------ claims
Done(t) == pc[t] = "done"

Returned(t) == pc[t] = "done" /\ loc[t].result.status = "ok"

\* The label the rating rule gives the integer r.
RatingLabel(r) == IF r >= 4 THEN "positive" ELSE IF r = 3 THEN "neutral" ELSE "negative"

\* C1: a call with an integer rating r returns positive for r >= 4, neutral for
\* r = 3 and negative for r <= 2, with sentiment_source "rating", whatever the
\* review and whatever the pipeline in memory would predict.
C1_IntegerRatingDecides ==
    \A t \in Threads :
        (Done(t) /\ loc[t].rating.kind = "int") =>
            /\ loc[t].result.status = "ok"
            /\ loc[t].result.sentiment = RatingLabel(loc[t].rating.v)
            /\ loc[t].result.model_info.sentiment_source = "rating"

\* A call with rating -1 has returned negative although the pipeline in memory
\* predicts another label for the review.
C1_Witness ==
    \E t \in Threads :
        /\ Returned(t)
        /\ loc[t].rating = IntRating(-1)
        /\ loc[t].result.sentiment = "negative"
        /\ CanPredict(pipeline)
        /\ PipelinePredict(pipeline, SimpleNormalize(CoerceReview(loc[t].review)))
               # "negative"

\* C2 as stated: every result of a call whose rating is omitted or is no integer
\* (a float, a string, any other value) has sentiment_source "model" and a
\* sentiment of the closed set.
C2_NonIntegerRatingUsesModel ==
    \A t \in Threads :
        (Returned(t) /\ loc[t].rating.kind # "int") =>
            /\ loc[t].result.model_info.sentiment_source = "model"
            /\ loc[t].result.sentiment \in Labels

\* C2 amended: every result of a call whose rating is omitted, or is a value
\* int() raises on, has sentiment_source "model" and a sentiment of the closed
\* set; a value int() converts (4.5 to 4, '5' to 5) is mapped like that integer,
\* with sentiment_source "rating".
C2_UnconvertibleRatingUsesModel ==
    \A t \in Threads :
        Returned(t) =>
            IF loc[t].rating.kind = "none" \/ ~IntOf(loc[t].rating).ok
            THEN /\ loc[t].result.model_info.sentiment_source = "model"
                 /\ loc[t].result.sentiment \in Labels
            ELSE /\ loc[t].result.model_info.sentiment_source = "rating"
                 /\ loc[t].result.sentiment = RatingLabel(IntOf(loc[t].rating).v)

\* A call with the rating 'x' has returned with sentiment_source "model".
C2_Witness ==
    \E t \in Threads :
        /\ Returned(t)
        /\ loc[t].rating = StrRating(<<"x">>)
        /\ loc[t].result.model_info.sentiment_source = "model"

\* C3: every result has a sentiment of the closed set, a prediction outside it
\* having become neutral, and a sentiment_source that is "rating" when the
\* rating gave the label and "model" when the pipeline's prediction did.
C3_ClosedLabelAndSource ==
    \A t \in Threads :
        Returned(t) =>
            LET res  == loc[t].result
                pred == PipelinePredict(pipeline,
                            SimpleNormalize(CoerceReview(loc[t].review)))
            IN  /\ res.sentiment \in {"positive", "neutral", "negative"}
                /\ res.model_info.sentiment_source \in {"rating", "model"}
                /\ res.model_info.sentiment_source = "rating" =>
                       /\ IntOf(loc[t].rating).ok
                       /\ res.sentiment = RatingLabel(IntOf(loc[t].rating).v)
                /\ res.model_info.sentiment_source = "model" =>
                       /\ MapRatingToSentiment(loc[t].rating) = "None"
                       /\ res.sentiment =
                              IF pred \in {"positive", "neutral", "negative"}
                              THEN pred ELSE "neutral"

\* A loaded pipeline has predicted a label outside the closed set and the call
\* has returned neutral from the model.
C3_Witness ==
    \E t \in Threads :
        /\ Returned(t)
        /\ pipeline = "foreign_pipe"
        /\ loc[t].result.model_info.sentiment_source = "model"
        /\ PipelinePredict(pipeline, SimpleNormalize(CoerceReview(loc[t].review)))
               \notin Labels
        /\ loc[t].result.sentiment = "neutral"

\* C4: whatever the artifact holds at process start, every generate_reply call
\* returns a result, computed with a fitted pipeline when it asks the model: no
\* error of the load or of what was loaded reaches the caller.
C4_NoLoadErrorReachesCaller ==
    \A t \in Threads :
        Done(t) =>
            /\ loc[t].result.status = "ok"
            /\ loc[t].used = "model" => CanPredict(pipeline)

FailedSave == saved \in {"open_failed", "write_failed"}

\* C5: when the save of the trained model fails, the import still ends with the
\* fitted pipeline installed and with model_info holding trained = true,
\* loaded_from = null, and save_error = the error message; every later call
\* returns, and a prediction is the in-memory model's.
C5_SaveFailureKeepsModel ==
    (FailedSave /\ pc["main"] = "ready") =>
        /\ pipeline = "bootstrap_pipe"
        /\ model_info = [loaded_from |-> "None", trained |-> TRUE, bootstrap_size |-> 15,
                         save_error |-> ErrorMessage(saved)]
        /\ \A t \in Threads :
            Done(t) =>
                /\ loc[t].result.status = "ok"
                /\ "save_error" \in DOMAIN loc[t].result.model_info
                /\ loc[t].result.model_info.save_error = ErrorMessage(saved)
                /\ loc[t].used = "model" =>
                       loc[t].result.sentiment =
                           fitted[SimpleNormalize(CoerceReview(loc[t].review))]

\* The write of the artifact has failed and a later call has returned the
\* in-memory model's prediction.
C5_Witness ==
    /\ saved = "write_failed"
    /\ artifact = "corrupt"
    /\ \E t \in Threads : Returned(t) /\ loc[t].used = "model"

\* C6: in one process run _ensure_model is entered at most once and by one
\* thread at a time, and no request predicts with the pipeline unset.
C6_ConstructedOnce ==
    /\ inits <= 1
    /\ Cardinality({a \in Actors : pc[a] \in EnsurePcs}) <= 1
    /\ \A t \in Threads : pc[t] = "run_predict" => pipeline # "None"

\* The fields of a result other than the provenance of the model.
Core(res) ==
    [reply |-> res.reply, summary |-> res.summary, sentiment |-> res.sentiment,
     recommendations |-> res.recommendations,
     sentiment_source |-> res.model_info.sentiment_source]

SameInputAsRef(t) ==
    /\ ref.set
    /\ Returned(t)
    /\ ref.result.status = "ok"
    /\ loc[t].review = ref.review
    /\ loc[t].rating = ref.rating

C9_RecommendationsFromTable ==
    \A t \in Threads :
        Returned(t) =>
            LET res == loc[t].result
            IN  /\ res.recommendations # <<>>
                /\ res.sentiment = "positive" =>
                       res.recommendations = <<"Share with product team", "Thank user">>
                /\ res.sentiment = "neutral" =>
                       res.recommendations =
                           <<"Log for product review", "Monitor feedback trend">>
                /\ res.sentiment = "negative" =>
                       res.recommendations =
                           <<"Escalate to engineering", "Request logs/screenshots",
                             "Offer support contact">>
                /\ res.sentiment \in {"positive", "neutral", "negative"}

\* A negative result, from the model, has returned with its three actions.
C9_Witness ==
    \E t \in Threads :
        /\ Returned(t)
        /\ loc[t].used = "model"
        /\ loc[t].result.sentiment = "negative"
        /\ Len(loc[t].result.recommendations) = 3

\* The number of sentence-ending marks of s.
EndMarks(s) == Cardinality({i \in 1..Len(s) : IsEnd(s[i])})

\* No sentence-ending mark of t is directly followed by whitespace.
NoBreak(t) == \A i \in 1..(Len(t) - 1) : ~(IsEnd(t[i]) /\ IsSpace(t[i + 1]))

\* C8 as stated: for s with at most one sentence-ending mark, wherever it is,
\* _simple_summarize(s, 1) is s.strip().
C8_OneMarkIsIdentity ==
    (sumOut.done /\ sumMax = 1 /\ EndMarks(sumText) <= 1) =>
        sumOut.out = Strip(sumText)

\* C8 amended: for s with at most one sentence-ending mark that, in s.strip(),
\* is not directly followed by whitespace (it is last, or a non-space character
\* follows it), _simple_summarize(s, 1) is s.strip().
C8_OneSentenceIsIdentity ==
    (sumOut.done /\ sumMax = 1 /\ EndMarks(sumText) <= 1 /\ NoBreak(Strip(sumText))) =>
        sumOut.out = Strip(sumText)

\* A text of several words whose one mark is last, with whitespace around it,
\* has been summarized to its stripped self.
C8_Witness ==
    /\ sumOut.done
    /\ sumMax = 1
    /\ EndMarks(sumText) = 1
    /\ sumText = <<" ", "a", " ", "a", ".">>
    /\ sumOut.out = <<"a", " ", "a", ".">>

\* The order the claim C10 gives the scored sentences: the higher word count
\* first, and of two equal counts the earlier sentence first.
EarlierFirstLess(x, y) == x.n < y.n \/ (x.n = y.n /\ x.i > y.i)

RECURSIVE SortEarlierFirst(_)
SortEarlierFirst(S) ==
    IF S = {} THEN <<>>
    ELSE LET top == CHOOSE x \in S : \A y \in S \ {x} : EarlierFirstLess(y, x)
         IN  <<top>> \o SortEarlierFirst(S \ {top})

EarlierFirstSet(scored, max_sentences) ==
    LET top == Prefix(SortEarlierFirst(scored), max_sentences)
    IN  {top[k].s : k \in 1..Len(top)}

\* C10: when the text has more than max_sentences sentences, the sentences
\* selected are the max_sentences of highest word count, the earlier sentence
\* winning a tie, so the summary is made of those.
C10_EarlierTiedSentenceWins ==
    sumOut.done =>
        LET sentences == SplitSentences(Strip(sumText))
        IN  (Len(sentences) > sumMax /\ Scored(sentences) # {}) =>
                sumOut.out = JoinSpace(StripEach(
                    Ordered(sentences, EarlierFirstSet(Scored(sentences), sumMax))))

\* The stripped sentences at the indices I, in input order.
RECURSIVE PickSentences(_, _, _)
PickSentences(sentences, I, k) ==
    IF k > Len(sentences) THEN <<>>
    ELSE (IF k \in I THEN <<Strip(sentences[k])>> ELSE <<>>)
             \o PickSentences(sentences, I, k + 1)

\* C11: when the text has more than max_sentences sentences, the summary is the
\* single-space join of at most max_sentences of the trimmed sentences, taken
\* in their input order, also when a sentence text occurs more than once.
C11_AtMostMaxSentencesInOrder ==
    sumOut.done =>
        LET sentences == SplitSentences(Strip(sumText))
        IN  Len(sentences) > sumMax =>
                \E I \in SUBSET (1..Len(sentences)) :
                    /\ Cardinality(I) <= sumMax
                    /\ sumOut.out = JoinSpace(PickSentences(sentences, I, 1))

====
